---- MODULE Spec2Model ----
(***************************************************************************)
(* A model of the OCR-Puller scripts:                                      *)
(*   src/ocr_file_finder.py    incremental (early-stop) search, flat merge  *)
(*   src/ocr_finder_comline.py phased (exhaustive) search, folder merge    *)
(*                                                                         *)
(* A name is a sequence of one-character strings, a path is a sequence of  *)
(* names (os.path.join appends a name).  The archive is a set of directory *)
(* paths and a set of file paths.                                          *)
(***************************************************************************)
EXTENDS Integers, Sequences, FiniteSets, TLC

VARIABLES
  adirs,        \* archive: the directory paths that exist
  afiles,       \* archive: the file paths that exist
  target,       \* target_name / base_name of the scan or search
  scan_root,    \* root_dir of a stand-alone search_directory_for_matches call
  scan_out,     \* its returned list, or <<"none">> before the call returns
  prog,         \* "finder" (ocr_file_finder.py) or "comline" (ocr_finder_comline.py)
  now,          \* datetime.now(): [y, m, d]
  pc,           \* where the searching thread is
  phase,        \* index of the current phase in the program's phase list
  task,         \* the futures: <<phase, directory>> -> pending/running/done/cancelled
  result,       \* the result of each done future
  collected,    \* the futures as_completed has handed to the searching thread
  matches,      \* matches / all_matches
  searched_dirs,\* phased_search's searched_dirs
  ret_dirs,     \* the set returned beside the match list
  phases_run    \* history: the phases whose candidates were resolved, in order

fsVars == <<adirs, afiles>>
scanVars == <<target, scan_root, scan_out>>
searchVars == <<prog, now, pc, phase, task, result, collected, matches,
                searched_dirs, ret_dirs, phases_run>>
\* the working directory and the merge that runs in it
VARIABLES wdirs, wfiles, initial_files, mpc, files_to_rename, file_list,
          matching_folders, walk, copied_count, files_before,
          original_file_path, worker, copied_folders, to_move,
          overwritten, named, nomatch

mergeVars == <<wdirs, wfiles, initial_files, mpc, files_to_rename, file_list,
               matching_folders, walk, copied_count, files_before,
               original_file_path, worker, copied_folders, to_move,
               overwritten, named, nomatch>>

\* the X-ray covers directory and the override pass over it
VARIABLES
  xdir,         \* os.path.exists(xray_covers_dir)
  xdirs,        \* names of the folders directly inside it
  xfiles,       \* the files directly inside it: name -> content
  xlist         \* the working files whose base names the pass has still to go through

xrayVars == <<xdir, xdirs, xfiles, xlist>>

\* the directories of the archive that os.scandir cannot read
VARIABLE unreadable

vars == <<adirs, afiles, target, scan_root, scan_out, prog, now, pc, phase, task,
          result, collected, matches, searched_dirs, ret_dirs, phases_run,
          mergeVars, xrayVars, unreadable>>

----------------------------------------------------------------------------
(* Bounds *)

\* most entries (directories and files) of an enumerated archive tree
MaxEntries == 4

----------------------------------------------------------------------------
(* Strings and paths *)

Range(s) == {s[i] : i \in 1..Len(s)}

Last(s) == s[Len(s)]

Front(s) == SubSeq(s, 1, Len(s) - 1)

\* Python's  t in s  on strings
Contains(s, t) == \E i \in 0..(Len(s) - Len(t)) : SubSeq(s, i + 1, i + Len(t)) = t

\* s.startswith(t)
StartsWith(s, t) == Len(t) <= Len(s) /\ SubSeq(s, 1, Len(t)) = t

\* s.endswith(t)
EndsWith(s, t) == Len(t) <= Len(s) /\ SubSeq(s, Len(s) - Len(t) + 1, Len(s)) = t

\* p lies strictly below q
Below(p, q) == Len(p) > Len(q) /\ SubSeq(p, 1, Len(q)) = q

\* the subsets of S with at most k elements
RECURSIVE SubsetsUpTo(_, _)
SubsetsUpTo(S, k) ==
  IF k = 0 \/ S = {} THEN {{}}
  ELSE LET x == CHOOSE y \in S : TRUE
           rest == S \ {x}
       IN SubsetsUpTo(rest, k) \cup {A \cup {x} : A \in SubsetsUpTo(rest, k - 1)}

\* the orders in which the elements of S can be listed
RECURSIVE Perms(_)
Perms(S) ==
  IF S = {} THEN {<<>>}
  ELSE UNION {{<<x>> \o p : p \in Perms(S \ {x})} : x \in S}

ConcatSets(A, B) == {a \o b : a \in A, b \in B}

----------------------------------------------------------------------------
(* search_directory_for_matches *)

\* os.scandir(root_dir): the entries directly inside root_dir
ScanDir(ds, fs, root) == {p \in ds \cup fs : Len(p) = Len(root) + 1 /\ Below(p, root)}

\* a wrong scanner that does not descend into the directories it finds
ScanSeqs_NoRecursion(ds, fs, root, t) ==
  UNION {{SelectSeq(p, LAMBDA e : e \in ds /\ Contains(Last(e), t))} :
         p \in Perms(ScanDir(ds, fs, root))}

\* Every list search_directory_for_matches(root, t) can return: os.scandir
\* yields the entries of a directory in an unspecified order, so each
\* directory's entries are taken in every order.
RECURSIVE ScanSeqs(_, _, _, _)
RECURSIVE ScanEntries(_, _, _, _)
ScanEntries(ds, fs, ents, t) ==
  IF ents = <<>> THEN {<<>>}
  ELSE LET e == Head(ents)
           here == IF e \in ds
                   THEN ConcatSets({IF Contains(Last(e), t) THEN <<e>> ELSE <<>>},
                                   ScanSeqs(ds, fs, e, t))
                   ELSE {<<>>}
       IN ConcatSets(here, ScanEntries(ds, fs, Tail(ents), t))

ScanSeqs(ds, fs, root, t) ==
  UNION {ScanEntries(ds, fs, p, t) : p \in Perms(ScanDir(ds, fs, root))}

search_directory_for_matches(ds, fs, root, t) == ScanSeqs(ds, fs, root, t)

----------------------------------------------------------------------------
(* Dates: datetime.now() - timedelta(days=k) and strftime *)

Digits == <<"0", "1", "2", "3", "4", "5", "6", "7", "8", "9">>

\* "%02d"
TwoDigits(n) == <<Digits[((n \div 10) % 10) + 1], Digits[(n % 10) + 1]>>

\* "%Y"
FourDigits(n) == TwoDigits(n \div 100) \o TwoDigits(n % 100)

IsLeap(y) == (y % 4 = 0 /\ y % 100 # 0) \/ y % 400 = 0

DaysInMonth(y, m) ==
  IF m = 2 THEN (IF IsLeap(y) THEN 29 ELSE 28)
  ELSE IF m \in {4, 6, 9, 11} THEN 30 ELSE 31

\* days before the first of January of year y (datetime._days_before_year)
DaysBeforeYear(y) ==
  (y - 1) * 365 + ((y - 1) \div 4) - ((y - 1) \div 100) + ((y - 1) \div 400)

\* datetime._DAYS_BEFORE_MONTH, for a year that is not a leap year
DaysBeforeMonthTable == <<0, 31, 59, 90, 120, 151, 181, 212, 243, 273, 304, 334>>

\* days of year y before the first of month m (datetime._days_before_month)
DaysBeforeMonth(y, m) == DaysBeforeMonthTable[m] + (IF m > 2 /\ IsLeap(y) THEN 1 ELSE 0)

\* date.toordinal(): the first of January of year 1 is day 1
ToOrdinal(dt) == DaysBeforeYear(dt.y) + DaysBeforeMonth(dt.y, dt.m) + dt.d

\* date.fromordinal(n) (datetime._ord2ymd)
FromOrdinal(n) ==
  LET n0 == n - 1
      n400 == n0 \div 146097
      r400 == n0 % 146097
      n100 == r400 \div 36524
      r100 == r400 % 36524
      n4 == r100 \div 1461
      r4 == r100 % 1461
      n1 == r4 \div 365
      r1 == r4 % 365
      year == n400 * 400 + 1 + n100 * 100 + n4 * 4 + n1
      leapyear == n1 = 3 /\ (n4 # 24 \/ n100 = 3)
      guess == (r1 + 50) \div 32
      before == DaysBeforeMonthTable[guess] + (IF guess > 2 /\ leapyear THEN 1 ELSE 0)
      month == IF before > r1 THEN guess - 1 ELSE guess
      preceding == IF before > r1
                   THEN before - (DaysInMonth(year, guess - 1))
                   ELSE before
  IN IF n1 = 4 \/ n100 = 4
     THEN [y |-> year - 1, m |-> 12, d |-> 31]
     ELSE [y |-> year, m |-> month, d |-> r1 - preceding + 1]

\* dt - timedelta(days=k)
DateBack(dt, k) == FromOrdinal(ToOrdinal(dt) - k)

\* dt - timedelta(days=1)
PrevDay(dt) == DateBack(dt, 1)

\* strftime("%m-%Y")
MonthPart(dt) == TwoDigits(dt.m) \o <<"-">> \o FourDigits(dt.y)

\* strftime("%m_%d")
DayPart(dt) == TwoDigits(dt.m) \o <<"_">> \o TwoDigits(dt.d)

current_month(dt) == MonthPart(dt)

\* (now.replace(day=1) - timedelta(days=1)).strftime("%m-%Y")
prev_month(dt) == MonthPart(PrevDay([dt EXCEPT !.d = 1]))

----------------------------------------------------------------------------
(* Configuration: the archive roots *)

\* search_dirs_all: the two configured archive roots
search_dirs_all == {<<<<"r", "1">>>>, <<<<"r", "2">>>>}

Year2025 == <<"2", "0", "2", "5">>

\* search_dirs_2025: root\2025
search_dirs_2025 == {r \o <<Year2025>> : r \in search_dirs_all}

\* range(1, 8): the days probed one by one
RecentDays == 7

\* range(8, 366) / range(1, 366): the last day probed
YearDays == 365

\* ThreadPoolExecutor(max_workers=16)
MaxWorkers == 16

----------------------------------------------------------------------------
(* The candidate directories of a phase *)

\* os.path.join(base_dir, month_part, day_part)
DayPath(base_dir, dt) == base_dir \o <<MonthPart(dt), DayPart(dt)>>

\* the existing day folders of days_back in from..to, in every base_dir
DayFolders(ds, search_dirs, dt, from, to) ==
  UNION {{DayPath(b, target_date) : b \in search_dirs} :
         target_date \in {DateBack(dt, k) : k \in from..to}} \cap ds

\* find_previous_business_day_folders
find_previous_business_day_folders(ds, search_dirs, dt) ==
  DayFolders(ds, search_dirs, dt, 1, YearDays)

\* a wrong get_month_folders that ignores exclude_dirs
get_month_folders_NoExclude(ds, fs, search_dirs, target_month, exclude_dirs) ==
  UNION {{p \in ScanDir(ds, fs, b \o <<target_month>>) : p \in ds} : b \in search_dirs}

\* get_month_folders: the directories directly inside base_dir\target_month that are
\* not in exclude_dirs
get_month_folders(ds, fs, search_dirs, target_month, exclude_dirs) ==
  UNION {{p \in ScanDir(ds, fs, b \o <<target_month>>) : p \in ds /\ p \notin exclude_dirs} :
         b \in {c \in search_dirs : c \o <<target_month>> \in ds \cup fs}}

Ph(name, k) == [name |-> name, days_back |-> k]

\* a wrong phase list: the two month phases swapped
ComlinePhases_Swapped ==
  <<Ph("previous day", 0), Ph("previous month", 0), Ph("current month", 0),
    Ph("entire year", 0), Ph("full archive", 0)>>

\* search_phases of ocr_finder_comline.main
ComlinePhases ==
  <<Ph("previous day", 0), Ph("current month", 0), Ph("previous month", 0),
    Ph("entire year", 0), Ph("full archive", 0)>>

\* the phases of incremental_search, find_incremental_business_day_folders inlined:
\* the recent days one by one, the rest of the year, the two months, the archive
FinderPhases ==
  [k \in 1..RecentDays |-> Ph("recent day", k)]
  \o <<Ph("rest of year", 0), Ph("current month", 0), Ph("previous month", 0),
       Ph("full archive", 0)>>

PhaseList(pr) == IF pr = "finder" THEN FinderPhases ELSE ComlinePhases

\* search_phases[i]['get_dirs'](sd) in ocr_finder_comline.main
ComlineCandidates(ds, fs, dt, ph, sd) ==
  CASE ph.name = "previous day" -> find_previous_business_day_folders(ds, search_dirs_2025, dt)
    [] ph.name = "current month" ->
         get_month_folders(ds, fs, search_dirs_2025, current_month(dt), sd)
    [] ph.name = "previous month" ->
         get_month_folders(ds, fs, search_dirs_2025, prev_month(dt), sd)
    [] ph.name = "entire year" -> get_month_folders(ds, fs, search_dirs_2025, Year2025, sd)
    [] ph.name = "full archive" -> get_month_folders(ds, fs, search_dirs_all, <<"*", "*">>, sd)

\* the directories incremental_search scans in a phase
FinderCandidates(ds, fs, dt, ph) ==
  CASE ph.name = "recent day" ->
         DayFolders(ds, search_dirs_2025, dt, ph.days_back, ph.days_back)
    [] ph.name = "rest of year" ->
         DayFolders(ds, search_dirs_2025, dt, RecentDays + 1, YearDays)
    [] ph.name = "current month" ->
         get_month_folders(ds, fs, search_dirs_2025, current_month(dt), {})
    [] ph.name = "previous month" ->
         get_month_folders(ds, fs, search_dirs_2025, prev_month(dt), {})
    [] ph.name = "full archive" -> {b \in search_dirs_all : b \in ds \cup fs}

Candidates(pr, ds, fs, dt, ph, sd) ==
  IF pr = "finder" THEN FinderCandidates(ds, fs, dt, ph)
  ELSE ComlineCandidates(ds, fs, dt, ph, sd)

----------------------------------------------------------------------------
(* The search of one base name: incremental_search / phased_search *)

NoTasks == <<>>

\* the override pass is not running and there is no X-ray covers directory;
\* every archive directory can be read
XrayIdle ==
  /\ xdir = FALSE
  /\ xdirs = {}
  /\ xfiles = <<>>
  /\ xlist = <<>>
  /\ unreadable = {}

\* no naming loop has run yet
NoName == [site |-> "none", first |-> <<>>, taken |-> {}, chosen |-> <<>>]

\* no merge is running
MergeIdle ==
  /\ wdirs = {}
  /\ wfiles = <<>>
  /\ initial_files = {}
  /\ mpc = "idle"
  /\ files_to_rename = <<>>
  /\ file_list = <<>>
  /\ matching_folders = <<>>
  /\ walk = <<>>
  /\ copied_count = 0
  /\ files_before = 0
  /\ original_file_path = <<>>
  /\ worker = <<>>
  /\ copied_folders = <<>>
  /\ to_move = <<>>
  /\ overwritten = {}
  /\ named = NoName
  /\ nomatch = {}

\* no search pool is running
PoolIdle ==
  /\ pc = "idle"
  /\ phase = 0
  /\ task = NoTasks
  /\ result = NoTasks
  /\ collected = {}
  /\ matches = <<>>
  /\ searched_dirs = {}
  /\ ret_dirs = {}
  /\ phases_run = <<>>

SearchIdle ==
  /\ prog = "none"
  /\ now = [y |-> 2025, m |-> 1, d |-> 1]
  /\ PoolIdle

TasksOf(i) == {k \in DOMAIN task : k[1] = i}

\* the phase's pool: max_workers=len(day_dirs) for a recent day, 16 otherwise
PoolSize ==
  IF prog = "finder" /\ PhaseList(prog)[phase].name = "recent day"
  THEN Cardinality(TasksOf(phase))
  ELSE MaxWorkers

\* a wrong early stop that never returns before the last phase
EarlyStop_Never(pr, ms) == FALSE

\* if matches: return matches   (incremental_search and
\* find_incremental_business_day_folders; phased_search has no such return)
EarlyStop(pr, ms) == pr = "finder" /\ ms # <<>>

\* a wrong accumulation that keeps only the latest result
Extended_Replace(ms, r) == r

\* all_matches.extend(result)
Extended(ms, r) == ms \o r

\* the end of a phase without a match to return: the next phase, or the return
\* after the last one
Advance(sd) ==
  IF phase = Len(PhaseList(prog))
  THEN /\ pc' = "returned"
       /\ ret_dirs' = (IF prog = "comline" THEN sd ELSE {})
       /\ UNCHANGED phase
  ELSE /\ pc' = "resolve"
       /\ phase' = phase + 1
       /\ UNCHANGED ret_dirs

\* the phase's candidates are resolved and, if there are any, submitted to a pool
Resolve ==
  /\ pc = "resolve"
  /\ LET cands == Candidates(prog, adirs, afiles, now, PhaseList(prog)[phase], searched_dirs)
     IN /\ phases_run' = Append(phases_run, PhaseList(prog)[phase])
        /\ IF cands = {}
           THEN /\ Advance(searched_dirs)
                /\ UNCHANGED task
           ELSE /\ task' = task @@ [k \in {<<phase, d>> : d \in cands} |-> "pending"]
                /\ pc' = "collect"
                /\ UNCHANGED <<phase, ret_dirs>>
  /\ UNCHANGED <<fsVars, xrayVars, unreadable, mergeVars, scanVars, prog, now, result, collected, matches, searched_dirs>>

\* a pool thread takes a pending future
ScanStart(k) ==
  /\ task[k] = "pending"
  /\ Cardinality({j \in DOMAIN task : task[j] = "running"}) < PoolSize
  /\ task' = [task EXCEPT ![k] = "running"]
  /\ UNCHANGED <<fsVars, xrayVars, unreadable, mergeVars, scanVars, prog, now, pc, phase, result, collected, matches,
                 searched_dirs, ret_dirs, phases_run>>

\* search_directory_for_matches(d, base_name) returns in its pool thread
ScanFinish(k) ==
  /\ task[k] = "running"
  /\ \E r \in search_directory_for_matches(adirs, afiles, k[2], target) :
       result' = result @@ (k :> r)
  /\ task' = [task EXCEPT ![k] = "done"]
  /\ UNCHANGED <<fsVars, xrayVars, unreadable, mergeVars, scanVars, prog, now, pc, phase, collected, matches,
                 searched_dirs, ret_dirs, phases_run>>

\* a wrong loop that leaves at the first non-empty result in every phase
BreaksAtFirst_Always(pr, ph) == TRUE

\* if result: ... break   (only in the recent-day loop of
\* find_incremental_business_day_folders)
BreaksAtFirst(pr, ph) == pr = "finder" /\ ph.name = "recent day"

\* one turn of  for fut in as_completed(futures):  a recent day of
\* find_incremental_business_day_folders cancels what has not started and
\* leaves the loop at the first non-empty result
Collect(k) ==
  /\ pc = "collect"
  /\ k[1] = phase
  /\ task[k] = "done"
  /\ k \notin collected
  /\ collected' = collected \cup {k}
  /\ IF result[k] # <<>>
     THEN /\ matches' = Extended(matches, result[k])
          /\ IF BreaksAtFirst(prog, PhaseList(prog)[phase])
             THEN /\ task' = [j \in DOMAIN task |->
                               IF task[j] = "pending" THEN "cancelled" ELSE task[j]]
                  /\ pc' = "drain"
             ELSE UNCHANGED <<task, pc>>
     ELSE UNCHANGED <<matches, task, pc>>
  /\ UNCHANGED <<fsVars, xrayVars, unreadable, mergeVars, scanVars, prog, now, phase, result, searched_dirs, ret_dirs,
                 phases_run>>

\* the as_completed loop is over and the with block has waited for the pool
PhaseEnd ==
  /\ pc \in {"collect", "drain"}
  /\ pc = "collect" => TasksOf(phase) \subseteq collected
  /\ \A k \in TasksOf(phase) : task[k] \in {"done", "cancelled"}
  /\ IF prog = "comline"
     THEN /\ searched_dirs' = searched_dirs \cup {k[2] : k \in TasksOf(phase)}
          /\ Advance(searched_dirs')
     ELSE /\ UNCHANGED searched_dirs
          /\ IF EarlyStop(prog, matches)
             THEN /\ pc' = "returned"
                  /\ ret_dirs' = {}
                  /\ UNCHANGED phase
             ELSE Advance(searched_dirs)
  /\ UNCHANGED <<fsVars, xrayVars, unreadable, mergeVars, scanVars, prog, now, task, result, collected, matches,
                 phases_run>>

----------------------------------------------------------------------------
(* The lists a whole search can return, as the merge sees them *)

\* the concatenations of one result per directory, the directories taken in
\* the order p (the order in which their futures complete)
RECURSIVE ResultsInOrder(_, _, _, _)
ResultsInOrder(ds, fs, p, t) ==
  IF p = <<>> THEN {<<>>}
  ELSE ConcatSets(search_directory_for_matches(ds, fs, Head(p), t),
                  ResultsInOrder(ds, fs, Tail(p), t))

\* the lists one phase can add: every candidate scanned, every completion order
PhaseLists(ds, fs, cands, t) ==
  UNION {ResultsInOrder(ds, fs, p, t) : p \in Perms(cands)}

\* phased_search(base_name, search_phases) from phase i on, with the matches acc
\* and the exclusion set sd of the phases before
RECURSIVE ComlineSearch(_, _, _, _, _, _, _)
ComlineSearch(ds, fs, dt, t, i, sd, acc) ==
  IF i > Len(ComlinePhases) THEN acc
  ELSE LET cands == ComlineCandidates(ds, fs, dt, ComlinePhases[i], sd)
       IN ComlineSearch(ds, fs, dt, t, i + 1, sd \cup cands,
                        ConcatSets(acc, PhaseLists(ds, fs, cands, t)))

phased_search(ds, fs, dt, t) == ComlineSearch(ds, fs, dt, t, 1, {}, {<<>>})

\* incremental_search from phase i on: a recent day returns the first
\* non-empty result alone, any other phase returns all its results
RECURSIVE FinderSearch(_, _, _, _, _)
FinderSearch(ds, fs, dt, t, i) ==
  LET cands == FinderCandidates(ds, fs, dt, FinderPhases[i])
      found == IF FinderPhases[i].name = "recent day"
               THEN UNION {search_directory_for_matches(ds, fs, c, t) : c \in cands}
               ELSE PhaseLists(ds, fs, cands, t)
  IN IF found \ {<<>>} # {} THEN found \ {<<>>}
     ELSE IF i = Len(FinderPhases) THEN {<<>>}
     ELSE FinderSearch(ds, fs, dt, t, i + 1)

incremental_search(ds, fs, dt, t) == FinderSearch(ds, fs, dt, t, 1)

\* the match lists the program's search can return for a base name
SearchLists(pr, ds, fs, dt, t) ==
  IF pr = "finder" THEN incremental_search(ds, fs, dt, t) ELSE phased_search(ds, fs, dt, t)

----------------------------------------------------------------------------
(* File names *)

UpperCase == <<"A", "B", "C", "D", "E", "F", "G", "H", "I", "J", "K", "L", "M",
               "N", "O", "P", "Q", "R", "S", "T", "U", "V", "W", "X", "Y", "Z">>

LowerCase == <<"a", "b", "c", "d", "e", "f", "g", "h", "i", "j", "k", "l", "m",
               "n", "o", "p", "q", "r", "s", "t", "u", "v", "w", "x", "y", "z">>

\* str.lower()
Lower(s) ==
  [i \in 1..Len(s) |->
     IF \E j \in 1..26 : UpperCase[j] = s[i]
     THEN LowerCase[CHOOSE j \in 1..26 : UpperCase[j] = s[i]]
     ELSE s[i]]

\* f.lower().endswith('.db')
IsDb(name) == EndsWith(Lower(name), <<".", "d", "b">>)

\* os.path.splitext(name): <<root, ext>>; the extension starts at the last dot,
\* unless only dots come before it
SplitExt(name) ==
  LET dots == {i \in 1..Len(name) : name[i] = "."}
      last == CHOOSE i \in dots : \A j \in dots : j <= i
  IN IF dots # {} /\ (\E j \in 1..(last - 1) : name[j] # ".")
     THEN <<SubSeq(name, 1, last - 1), SubSeq(name, last, Len(name))>>
     ELSE <<name, <<>>>>

\* str(n) for n >= 0
RECURSIVE Str(_)
Str(n) == IF n < 10 THEN <<Digits[n + 1]>> ELSE Str(n \div 10) \o <<Digits[(n % 10) + 1]>>

CopyMark == <<" ", "-", " ", "C", "o", "p", "y">>

\* f"{base} - Copy{ext}"
CopyName(base, ext) == base \o CopyMark \o ext

\* f"{base} - Copy ({n}){ext}"
CopyAlt(base, ext, n) == base \o CopyMark \o <<" ", "(">> \o Str(n) \o <<")">> \o ext

\* f"{base_file} ({copy_num}){ext}"
FlatAlt(base, ext, n) == base \o <<" ", "(">> \o Str(n) \o <<")">> \o ext

\* the n-th alternative name of a naming loop
Alt(style, base, ext, n) ==
  IF style = "flat" THEN FlatAlt(base, ext, n) ELSE CopyAlt(base, ext, n)

\* a wrong naming loop that tries the first alternative only
FreeAlt_Once(taken, style, base, ext, n) == Alt(style, base, ext, n)

\* while os.path.exists(dest): dest = alternative n; n += 1
\* taken: the names that exist in the destination directory
RECURSIVE FreeAlt(_, _, _, _, _)
FreeAlt(taken, style, base, ext, n) ==
  IF Alt(style, base, ext, n) \in taken
  THEN FreeAlt(taken, style, base, ext, n + 1)
  ELSE Alt(style, base, ext, n)

\* the name a naming loop settles on: first if it is free, else the first free
\* alternative
FreeName(taken, first, style, base, ext) ==
  IF first \in taken THEN FreeAlt(taken, style, base, ext, 1) ELSE first

\* s.replace(pat, "")
RECURSIVE Remove(_, _)
Remove(s, pat) ==
  IF Len(s) < Len(pat) THEN s
  ELSE IF SubSeq(s, 1, Len(pat)) = pat THEN Remove(SubSeq(s, Len(pat) + 1, Len(s)), pat)
  ELSE <<Head(s)>> \o Remove(Tail(s), pat)

\* s.split(sep)[0]
RECURSIVE SplitHead(_, _)
SplitHead(s, sep) ==
  IF Len(s) < Len(sep) THEN s
  ELSE IF SubSeq(s, 1, Len(sep)) = sep THEN <<>>
  ELSE <<Head(s)>> \o SplitHead(Tail(s), sep)

\* base_name.replace(" - Copy", "").split(" (")[0]
SearchName(base_name) == SplitHead(Remove(base_name, CopyMark), <<" ", "(">>)

----------------------------------------------------------------------------
(* os.walk *)

\* the orders in which os.walk(top) can visit the subtree of top: for each
\* directory its sub-directories, then its files, then each sub-directory in turn
RECURSIVE WalkSeqs(_, _, _)
RECURSIVE WalkInto(_, _, _)
WalkInto(ds, fs, subdirs) ==
  IF subdirs = <<>> THEN {<<>>}
  ELSE ConcatSets(WalkSeqs(ds, fs, Head(subdirs)), WalkInto(ds, fs, Tail(subdirs)))

WalkSeqs(ds, fs, top) ==
  LET ents == ScanDir(ds, fs, top)
  IN UNION {ConcatSets({dp \o fp}, WalkInto(ds, fs, dp)) :
            dp \in Perms(ents \cap ds), fp \in Perms(ents \cap fs)}

----------------------------------------------------------------------------
(* The working directory *)

NotInOcr == <<"N", "O", "T", " ", "I", "N", " ", "O", "C", "R">>

\* os.path.exists
WExists(p) == p \in wdirs \/ p \in DOMAIN wfiles

\* os.listdir(d), as a set of names
NamesIn(d) == {Last(p) : p \in ScanDir(wdirs, DOMAIN wfiles, d)}

\* os.listdir(prompt_dir)
RootNames == NamesIn(<<>>)

\* the file at path p now holds content c
Put(f, p, c) == [q \in DOMAIN f \cup {p} |-> IF q = p THEN c ELSE f[q]]

\* the file at path p is gone
Drop(f, p) == [q \in DOMAIN f \ {p} |-> f[q]]

\* the path shutil.copy2(src, dst) writes: into dst when dst is a directory
Copy2Dest(dst, name) == IF dst \in wdirs THEN dst \o <<name>> ELSE dst

\* the paths among ps that a write replaces
Replaced(ps) == {p \in ps : WExists(p)}

\* p moved from below the working root to below directory d
MovedInto(p, name, d) == IF StartsWith(p, <<name>>) THEN d \o p ELSE p

\* the record of one run of a naming loop
Naming(site, first, taken, chosen) ==
  [site |-> site, first |-> first, taken |-> taken, chosen |-> chosen]

----------------------------------------------------------------------------
(* The stand-alone scan: every small tree, every target, every order *)

ScanNames == {<<"a">>, <<"b">>, <<"a", "b">>}

ScanTargets == {<<"a">>, <<"b">>, <<"a", "b">>, <<"b", "a">>}

ScanPaths == {<<n>> : n \in ScanNames} \cup {<<n, m>> : n \in ScanNames, m \in ScanNames}

\* a finite tree: every entry's parent is the root or a directory of the tree
IsTree(ds, fs) ==
  /\ ds \cap fs = {}
  /\ \A p \in ds \cup fs : Len(p) > 1 => Front(p) \in ds

NotScanned == <<"none">>

InitScan ==
  /\ \E es \in SubsetsUpTo(ScanPaths, MaxEntries) :
       \E ds \in SUBSET es :
         /\ IsTree(ds, es \ ds)
         /\ adirs = ds
         /\ afiles = es \ ds
  /\ target \in ScanTargets
  /\ scan_root \in adirs \cup {<<>>}
  /\ scan_out = NotScanned
  /\ SearchIdle
  /\ MergeIdle
  /\ XrayIdle

\* one call of search_directory_for_matches(scan_root, target)
Scan ==
  /\ scan_out = NotScanned
  /\ scan_out' \in search_directory_for_matches(adirs, afiles, scan_root, target)
  /\ UNCHANGED <<fsVars, xrayVars, unreadable, target, scan_root, searchVars, mergeVars>>

NextScan == Scan

SpecScan == InitScan /\ [][NextScan]_vars

----------------------------------------------------------------------------
(* C1 *)

\* the directories strictly below root whose final component contains t
MatchesBelow(ds, root, t) == {p \in ds : Below(p, root) /\ Contains(Last(p), t)}

\* C1: search_directory_for_matches(D, T) returns exactly the directories
\* strictly below D whose final path component contains T: none missing,
\* none extra, each once, whatever the order in which entries are traversed.
C1_ScanExact ==
  scan_out # NotScanned =>
    /\ Range(scan_out) = MatchesBelow(adirs, scan_root, target)
    /\ Len(scan_out) = Cardinality(Range(scan_out))

\* a scan that returned a match two levels down, beside a file whose name
\* contains the target and a directory whose name does not
C1_Witness ==
  /\ scan_out # NotScanned
  /\ \E p \in Range(scan_out) : Len(p) = Len(scan_root) + 2
  /\ \E f \in afiles : Contains(Last(f), target)
  /\ \E d \in adirs : Below(d, scan_root) /\ ~Contains(Last(d), target)

----------------------------------------------------------------------------
(* The search specification: both programs, a small archive, a few dates *)

\* most leaf folders of an enumerated archive
MaxLeaves == 2

R1 == <<"r", "1">>
R2 == <<"r", "2">>
Jun25 == <<"0", "6", "-", "2", "0", "2", "5">>
May25 == <<"0", "5", "-", "2", "0", "2", "5">>
Jun10 == <<"0", "6", "_", "1", "0">>
Jun09 == <<"0", "6", "_", "0", "9">>
Jun30 == <<"0", "6", "_", "3", "0">>
May20 == <<"0", "5", "_", "2", "0">>
N12 == <<"1", "2">>
N12S == <<"1", "2", "_", "S">>
N34 == <<"3", "4">>

\* the leaf folders an archive is drawn from; their ancestors come with them
ArchiveLeaves ==
  { <<R1, Year2025, Jun25, Jun10, N12S>>,
    <<R2, Year2025, Jun25, Jun10, N12S>>,
    <<R1, Year2025, Jun25, Jun10, N34>>,
    <<R2, Year2025, Jun25, Jun09, N34>>,
    <<R1, Year2025, Jun25, Jun30, N12>>,
    <<R1, Year2025, May25, May20, N12S, N12>>,
    <<R1, Year2025, Jun25, <<"m">>, N12>>,
    <<R1, Year2025, Year2025, <<"x">>, N12>>,
    <<R1, <<"*", "*">>, <<"y">>, N12>>,
    <<R2, <<"o">>, N12>> }

Ancestors(p) == {SubSeq(p, 1, k) : k \in 1..Len(p)}

Nows == {[y |-> 2025, m |-> 6, d |-> 11], [y |-> 2025, m |-> 7, d |-> 1]}

ScanIdle == scan_root = <<>> /\ scan_out = NotScanned

InitSearch ==
  /\ \E ls \in SubsetsUpTo(ArchiveLeaves, MaxLeaves) :
       adirs = UNION {Ancestors(l) : l \in ls}
  /\ afiles = {}
  /\ target = N12
  /\ ScanIdle
  /\ prog \in {"finder", "comline"}
  /\ now \in Nows
  /\ pc = "resolve"
  /\ phase = 1
  /\ task = NoTasks
  /\ result = NoTasks
  /\ collected = {}
  /\ matches = <<>>
  /\ searched_dirs = {}
  /\ ret_dirs = {}
  /\ phases_run = <<>>
  /\ MergeIdle
  /\ XrayIdle

NextSearch ==
  \/ Resolve
  \/ \E k \in DOMAIN task : ScanStart(k)
  \/ \E k \in DOMAIN task : ScanFinish(k)
  \/ \E k \in DOMAIN task : Collect(k)
  \/ PhaseEnd

SpecSearch == InitSearch /\ [][NextSearch]_vars

----------------------------------------------------------------------------
(* C2 .. C6 *)

\* the directories handed to a scan worker so far
Submitted == {k[2] : k \in DOMAIN task}

\* the futures whose scan has started
Scanned == {k \in DOMAIN task : task[k] \in {"running", "done"}}

\* C2: under early-stop, once a phase has yielded a match the search returns a
\* non-empty list made only of that phase's matches, and no later phase is
\* resolved (probed) or scanned: no phase is ever resolved with a match in hand,
\* and whatever is in the match list came from the last phase resolved.
C2_EarlyStop ==
  prog = "finder" =>
    /\ pc = "resolve" => \A k \in DOMAIN result : result[k] = <<>>
    /\ matches # <<>> =>
         /\ Len(phases_run) = phase
         /\ \A k \in DOMAIN task : k[1] <= phase
         /\ \A m \in Range(matches) :
              \E k \in TasksOf(phase) : k \in DOMAIN result /\ m \in Range(result[k])
    /\ (pc = "returned" /\ \E k \in DOMAIN result : result[k] # <<>>) => matches # <<>>

\* early-stop returned the match of a recent day while a later phase, never
\* resolved, had a candidate holding a match too
C2_Witness ==
  /\ prog = "finder" /\ pc = "returned" /\ matches # <<>>
  /\ PhaseList(prog)[phase].name = "recent day"
  /\ \E i \in (phase + 1)..Len(FinderPhases) :
       \E d \in FinderCandidates(adirs, afiles, now, FinderPhases[i]) :
         /\ MatchesBelow(adirs, d, target) # {}
         /\ d \notin Submitted

\* C3: phased_search runs every phase, also after a phase has produced matches,
\* and the returned list, as a set, is the union of the scan results of every
\* candidate directory of every phase.
C3_Exhaustive ==
  (prog = "comline" /\ pc = "returned") =>
    /\ Len(phases_run) = Len(ComlinePhases)
    /\ \A k \in DOMAIN task : task[k] = "done"
    /\ Range(matches) = UNION {MatchesBelow(adirs, d, target) : d \in Submitted}

\* phased_search returned matches of its first phase and of a later phase
C3_Witness ==
  /\ prog = "comline" /\ pc = "returned"
  /\ \E k1, k2 \in DOMAIN task :
       /\ k1[1] = 1 /\ k2[1] > 1
       /\ result[k1] # <<>> /\ result[k2] # <<>>
       /\ Range(result[k2]) \ Range(result[k1]) # {}

\* the phase order of each program, by name
ExpectedComline ==
  <<"previous day", "current month", "previous month", "entire year", "full archive">>

ExpectedFinder ==
  <<"recent day", "recent day", "recent day", "recent day", "recent day", "recent day",
    "recent day", "rest of year", "current month", "previous month", "full archive">>

PhaseNames == [i \in 1..Len(phases_run) |-> phases_run[i].name]

\* C4 (amended): phased_search runs previous-day, current-month, previous-month,
\* entire-year, full-archive in that order and skips none; incremental_search
\* runs the seven recent days one by one, the rest of the year, current-month,
\* previous-month and full-archive in that order (it has no entire-year phase)
\* and skips none before it returns, running all of them when nothing matches;
\* in both, a scan runs only while its own phase is the current one.
C4_PhaseOrder ==
  /\ LET expected == IF prog = "finder" THEN ExpectedFinder ELSE ExpectedComline
     IN /\ Len(phases_run) <= Len(expected)
        /\ PhaseNames = SubSeq(expected, 1, Len(phases_run))
        /\ (pc = "returned" /\ (prog = "comline" \/ matches = <<>>)) =>
             Len(phases_run) = Len(expected)
  /\ \A i \in 1..Len(phases_run) :
       phases_run[i].name = "recent day" => phases_run[i].days_back = i
  /\ \A k \in DOMAIN task :
       task[k] = "running" => (k[1] = phase /\ pc \in {"collect", "drain"})

\* both programs ran to their last phase with scans in two different phases
C4_Witness ==
  /\ pc = "returned"
  /\ phase = Len(PhaseList(prog))
  /\ \E k1, k2 \in DOMAIN task : k1[1] # k2[1] /\ task[k1] = "done" /\ task[k2] = "done"
  /\ PhaseNames[Len(PhaseNames)] = "full archive"

\* the five phase kinds of the claim: a recent day and the rest of the year are
\* both the previous-day phase
Kind(name) == IF name \in {"recent day", "rest of year"} THEN "previous day" ELSE name

RECURSIVE Collapse(_)
Collapse(q) ==
  IF Len(q) <= 1 THEN q
  ELSE IF Kind(q[1]) = Kind(q[2]) THEN Collapse(Tail(q))
  ELSE <<Kind(q[1])>> \o Collapse(Tail(q))

KindsRun == LET c == Collapse(PhaseNames) IN [i \in 1..Len(c) |-> Kind(c[i])]

\* C4 as claimed: the phases run are previous-day, current-month,
\* previous-month, entire-year, full-archive in that order, none skipped.
C4_Original ==
  /\ Len(KindsRun) <= Len(ExpectedComline)
  /\ KindsRun = SubSeq(ExpectedComline, 1, Len(KindsRun))
  /\ (pc = "returned" /\ matches = <<>>) => KindsRun = ExpectedComline

\* C5: in phased_search, between phases the exclusion set is the set of
\* directories submitted so far, no directory is submitted in two phases, and
\* the set returned is the set of directories scanned.
C5_Exclusion ==
  prog = "comline" =>
    /\ pc \in {"resolve", "returned"} => searched_dirs = Submitted
    /\ \A k1, k2 \in DOMAIN task : k1[2] = k2[2] => k1[1] = k2[1]
    /\ pc = "returned" => ret_dirs = {k[2] : k \in Scanned}

\* phased_search returned after a month phase that listed a day folder the
\* first phase had already scanned, and scanned only the rest of the month
C5_Witness ==
  /\ prog = "comline" /\ pc = "returned"
  /\ \E k1, k2 \in DOMAIN task :
       /\ k1[1] = 1 /\ k2[1] = 2
       /\ Front(k1[2]) = Front(k2[2])
       /\ k1[2] \in get_month_folders_NoExclude(adirs, afiles, search_dirs_2025,
                                                current_month(now), {})

\* C6 as claimed: under early-stop no directory is scanned in two phases of
\* one search.
C6_NoRescan ==
  prog = "finder" => \A k1, k2 \in Scanned : k1[2] = k2[2] => k1[1] = k2[1]

\* the search run step by step returns one of the lists of SearchLists
SearchAgrees ==
  pc = "returned" => matches \in SearchLists(prog, adirs, afiles, now, target)

----------------------------------------------------------------------------
(* The merge of ocr_file_finder: rename the originals, then copy the files of
   every match folder flat into the working directory *)

DashCopy == <<"-", " ", "C", "o", "p", "y">>

\* the files get_file_base_names reads: os.path.isfile and not .db
ListedFiles == {n \in RootNames : <<n>> \in DOMAIN wfiles /\ ~IsDb(n)}

\* get_file_base_names(prompt_dir) in every order os.listdir can give
get_file_base_names ==
  {[i \in 1..Len(p) |-> SplitExt(p[i])[1]] : p \in Perms(ListedFiles)}

\* rename_original_files_to_copy: the listing of the files to rename
RenameList ==
  /\ mpc = "rename_list"
  /\ files_to_rename' \in
       Perms({n \in ListedFiles : ~Contains(n, DashCopy)})
  /\ mpc' = "rename"
  /\ UNCHANGED <<fsVars, xrayVars, unreadable, scanVars, searchVars, wdirs, wfiles, initial_files,
                 file_list, matching_folders, walk, copied_count, files_before,
                 original_file_path, worker, copied_folders, to_move,
                 overwritten, named, nomatch>>

\* rename_original_files_to_copy: one os.rename to a name found free
RenameFile ==
  /\ mpc = "rename"
  /\ files_to_rename # <<>>
  /\ LET filename == Head(files_to_rename)
         se == SplitExt(filename)
         first == CopyName(se[1], se[2])
         chosen == FreeName(RootNames, first, "copy", se[1], se[2])
     IN /\ named' = Naming("rename", first, RootNames, chosen)
        /\ overwritten' = overwritten \cup Replaced({<<chosen>>})
        /\ wfiles' = Put(Drop(wfiles, <<filename>>), <<chosen>>, wfiles[<<filename>>])
  /\ files_to_rename' = Tail(files_to_rename)
  /\ UNCHANGED <<fsVars, xrayVars, unreadable, scanVars, searchVars, wdirs, initial_files, mpc,
                 file_list, matching_folders, walk, copied_count, files_before,
                 original_file_path, worker, copied_folders, to_move, nomatch>>

\* rename_original_files_to_copy returns
RenameReturn ==
  /\ mpc = "rename"
  /\ files_to_rename = <<>>
  /\ mpc' = "list"
  /\ UNCHANGED <<fsVars, xrayVars, unreadable, scanVars, searchVars, wdirs, wfiles, initial_files,
                 files_to_rename, file_list, matching_folders, walk,
                 copied_count, files_before, original_file_path, worker,
                 copied_folders, to_move, overwritten, named, nomatch>>

\* main reads the base names to process; ocr_file_finder returns at once when
\* there are none
ListFiles ==
  /\ mpc = "list"
  /\ file_list' \in get_file_base_names
  /\ mpc' = IF prog = "finder" /\ ListedFiles = {} THEN "done" ELSE "loop"
  /\ UNCHANGED <<fsVars, xrayVars, unreadable, scanVars, searchVars, wdirs, wfiles, initial_files,
                 files_to_rename, matching_folders, walk, copied_count,
                 files_before, original_file_path, worker, copied_folders,
                 to_move, overwritten, named, nomatch>>

\* a wrong program whose search workers call the merge themselves, whether or
\* not another merge is running
MergeMayStart_InWorker == mpc \in {"loop", "flat"}

\* copy_files_from_matching_folders is called by the main thread, from its
\* as_completed loop: the previous call has returned
MergeMayStart == mpc = "loop"

\* ocr_file_finder main: the result of one search worker arrives; with matches
\* copy_files_from_matching_folders starts, without them nothing is done
FinderTask ==
  /\ prog = "finder"
  /\ MergeMayStart
  /\ file_list # <<>>
  /\ \E ms \in incremental_search(adirs, afiles, now, SearchName(Head(file_list))) :
       IF ms # <<>>
       THEN /\ matching_folders' = ms
            /\ walk' = <<>>
            /\ copied_count' = 0
            /\ files_before' = Cardinality(DOMAIN wfiles)
            /\ mpc' = "flat"
            /\ UNCHANGED nomatch
       ELSE /\ nomatch' = nomatch \cup {Head(file_list)}
            /\ UNCHANGED <<matching_folders, walk, copied_count, files_before, mpc>>
  /\ file_list' = Tail(file_list)
  /\ UNCHANGED <<fsVars, xrayVars, unreadable, scanVars, searchVars, wdirs, wfiles, initial_files,
                 files_to_rename, original_file_path, worker, copied_folders,
                 to_move, overwritten, named>>

\* copy_files_from_matching_folders: os.walk of the next match folder, keeping
\* the files that are not .db
WalkFolder ==
  /\ mpc = "flat"
  /\ walk = <<>>
  /\ matching_folders # <<>>
  /\ walk' \in {SelectSeq(w, LAMBDA e : e \in afiles /\ ~IsDb(Last(e))) :
                w \in WalkSeqs(adirs, afiles, Head(matching_folders))}
  /\ matching_folders' = Tail(matching_folders)
  /\ UNCHANGED <<fsVars, xrayVars, unreadable, scanVars, searchVars, wdirs, wfiles, initial_files, mpc,
                 files_to_rename, file_list, copied_count, files_before,
                 original_file_path, worker, copied_folders, to_move,
                 overwritten, named, nomatch>>

\* copy_files_from_matching_folders: one file copied to a name found free in
\* the working root
CopyFile ==
  /\ mpc = "flat"
  /\ walk # <<>>
  /\ LET file == Last(Head(walk))
         se == SplitExt(file)
         chosen == FreeName(RootNames, file, "flat", se[1], se[2])
         dest == Copy2Dest(<<chosen>>, file)
     IN /\ named' = Naming("flat", file, RootNames, chosen)
        /\ overwritten' = overwritten \cup Replaced({dest})
        /\ wfiles' = Put(wfiles, dest, Head(walk))
  /\ copied_count' = copied_count + 1
  /\ walk' = Tail(walk)
  /\ UNCHANGED <<fsVars, xrayVars, unreadable, scanVars, searchVars, wdirs, initial_files, mpc,
                 files_to_rename, file_list, matching_folders, files_before,
                 original_file_path, worker, copied_folders, to_move, nomatch>>

\* copy_files_from_matching_folders returns copied_count
FlatReturn ==
  /\ mpc = "flat"
  /\ walk = <<>>
  /\ matching_folders = <<>>
  /\ mpc' = "loop"
  /\ UNCHANGED <<fsVars, xrayVars, unreadable, scanVars, searchVars, wdirs, wfiles, initial_files,
                 files_to_rename, file_list, matching_folders, walk,
                 copied_count, files_before, original_file_path, worker,
                 copied_folders, to_move, overwritten, named, nomatch>>

\* main has processed every base name
Finish ==
  /\ mpc = "loop"
  /\ file_list = <<>>
  /\ mpc' = "done"
  /\ UNCHANGED <<fsVars, xrayVars, unreadable, scanVars, searchVars, wdirs, wfiles, initial_files,
                 files_to_rename, file_list, matching_folders, walk,
                 copied_count, files_before, original_file_path, worker,
                 copied_folders, to_move, overwritten, named, nomatch>>

----------------------------------------------------------------------------
(* The merge of ocr_finder_comline: copy every match folder into the working
   directory in a pool of copy workers, put the original into each copy and
   remove it; without matches move the files into "NOT IN OCR" *)

\* find_original_file: the entries one of which os.listdir yields first
OriginalCandidates(base_name) == {n \in RootNames : StartsWith(n, base_name \o <<".">>)}

\* the copy workers submitted for the match folders ms
Submit(ms) ==
  [i \in 1..Len(ms) |-> [src |-> ms[i], pc |-> "name", dest |-> <<>>, ops |-> <<>>]]

\* ocr_finder_comline main: the next base name. With matches
\* copy_matching_contents looks up the original and submits one
\* copy_folder_with_contents per match folder; without them "NOT IN OCR" is
\* made and the working root is listed
ComlineTask ==
  /\ prog = "comline"
  /\ mpc = "loop"
  /\ file_list # <<>>
  /\ LET base_name == Head(file_list) IN
     \E ms \in phased_search(adirs, afiles, now, base_name) :
       IF ms # <<>>
       THEN /\ IF OriginalCandidates(base_name) = {}
               THEN UNCHANGED <<original_file_path, worker, copied_folders, mpc>>
               ELSE /\ original_file_path' \in OriginalCandidates(base_name)
                    /\ worker' = Submit(ms)
                    /\ copied_folders' = <<>>
                    /\ mpc' = "copying"
            /\ UNCHANGED <<wdirs, to_move, nomatch>>
       ELSE /\ nomatch' = nomatch \cup {base_name}
            /\ IF <<NotInOcr>> \in DOMAIN wfiles
               THEN /\ mpc' = "crashed"
                    /\ UNCHANGED <<wdirs, to_move>>
               ELSE /\ wdirs' = wdirs \cup {<<NotInOcr>>}
                    /\ to_move' \in Perms(OriginalCandidates(base_name))
                    /\ mpc' = "unresolved"
            /\ UNCHANGED <<original_file_path, worker, copied_folders>>
  /\ file_list' = Tail(file_list)
  /\ UNCHANGED <<fsVars, xrayVars, unreadable, scanVars, searchVars, wfiles, initial_files,
                 files_to_rename, matching_folders, walk, copied_count,
                 files_before, overwritten, named>>

\* copy_folder_with_contents: the destination folder is chosen by probing the
\* working root. The default pool has more threads than there are match
\* folders here, so every submitted copy runs at once.
WorkerName(i) ==
  /\ worker[i].pc = "name"
  /\ LET folder_name == Last(worker[i].src)
         chosen == FreeName(RootNames, folder_name, "copy", folder_name, <<>>)
     IN /\ named' = Naming("folder", folder_name, RootNames, chosen)
        /\ worker' = [worker EXCEPT ![i].pc = "mkdir", ![i].dest = chosen]
  /\ UNCHANGED <<fsVars, xrayVars, unreadable, scanVars, searchVars, wdirs, wfiles, initial_files, mpc,
                 files_to_rename, file_list, matching_folders, walk,
                 copied_count, files_before, original_file_path,
                 copied_folders, to_move, overwritten, nomatch>>

\* copy_folder_with_contents: os.makedirs(dest_folder, exist_ok=True), then
\* os.walk of the source
WorkerMkdir(i) ==
  /\ worker[i].pc = "mkdir"
  /\ IF <<worker[i].dest>> \in DOMAIN wfiles
     THEN /\ worker' = [worker EXCEPT ![i].pc = "failed"]
          /\ UNCHANGED wdirs
     ELSE /\ wdirs' = wdirs \cup {<<worker[i].dest>>}
          /\ \E w \in WalkSeqs(adirs, afiles, worker[i].src) :
               worker' = [worker EXCEPT ![i].pc = "copy", ![i].ops = w]
  /\ UNCHANGED <<fsVars, xrayVars, unreadable, scanVars, searchVars, wfiles, initial_files, mpc,
                 files_to_rename, file_list, matching_folders, walk,
                 copied_count, files_before, original_file_path,
                 copied_folders, to_move, overwritten, named, nomatch>>

\* copy_folder_with_contents: the next entry of the walk; a directory is made
\* (exist_ok), a .db file is skipped, any other file is copied with copy2,
\* which can raise OSError and end the worker
WorkerCopy(i) ==
  /\ worker[i].pc = "copy"
  /\ worker[i].ops # <<>>
  /\ LET e == Head(worker[i].ops)
         rel == SubSeq(e, Len(worker[i].src) + 1, Len(e))
         dst == <<worker[i].dest>> \o rel
         to == Copy2Dest(dst, Last(e))
         next == [worker EXCEPT ![i].ops = Tail(worker[i].ops)]
         fail == [worker EXCEPT ![i].pc = "failed"]
     IN IF e \in adirs
        THEN /\ IF dst \in DOMAIN wfiles
                THEN worker' = fail /\ UNCHANGED wdirs
                ELSE worker' = next /\ wdirs' = wdirs \cup {dst}
             /\ UNCHANGED <<wfiles, overwritten>>
        ELSE IF IsDb(Last(e))
        THEN /\ worker' = next
             /\ UNCHANGED <<wdirs, wfiles, overwritten>>
        ELSE IF to \in wdirs
        THEN /\ worker' = fail
             /\ UNCHANGED <<wdirs, wfiles, overwritten>>
        ELSE \/ /\ worker' = next
                /\ overwritten' = overwritten \cup Replaced({to})
                /\ wfiles' = Put(wfiles, to, e)
                /\ UNCHANGED wdirs
             \/ /\ worker' = fail
                /\ UNCHANGED <<wdirs, wfiles, overwritten>>
  /\ UNCHANGED <<fsVars, xrayVars, unreadable, scanVars, searchVars, initial_files, mpc,
                 files_to_rename, file_list, matching_folders, walk,
                 copied_count, files_before, original_file_path,
                 copied_folders, to_move, named, nomatch>>

\* copy_folder_with_contents returns dest_folder
WorkerReturn(i) ==
  /\ worker[i].pc = "copy"
  /\ worker[i].ops = <<>>
  /\ worker' = [worker EXCEPT ![i].pc = "done"]
  /\ UNCHANGED <<fsVars, xrayVars, unreadable, scanVars, searchVars, wdirs, wfiles, initial_files, mpc,
                 files_to_rename, file_list, matching_folders, walk,
                 copied_count, files_before, original_file_path,
                 copied_folders, to_move, overwritten, named, nomatch>>

\* copy_matching_contents: as_completed yields a finished worker; fut.result()
\* gives its folder or raises what the worker raised
CollectCopy(i) ==
  /\ mpc = "copying"
  /\ worker[i].pc \in {"done", "failed"}
  /\ IF worker[i].pc = "done"
     THEN /\ copied_folders' = Append(copied_folders, worker[i].dest)
          /\ worker' = [worker EXCEPT ![i].pc = "collected"]
          /\ UNCHANGED mpc
     ELSE /\ mpc' = "crashed"
          /\ worker' = [worker EXCEPT ![i].pc = "raised"]
          /\ UNCHANGED copied_folders
  /\ UNCHANGED <<fsVars, xrayVars, unreadable, scanVars, searchVars, wdirs, wfiles, initial_files,
                 files_to_rename, file_list, matching_folders, walk,
                 copied_count, files_before, original_file_path, to_move,
                 overwritten, named, nomatch>>

\* copy_matching_contents: every future has been collected and the pool is left
PoolExit ==
  /\ mpc = "copying"
  /\ \A i \in DOMAIN worker : worker[i].pc = "collected"
  /\ mpc' = "fill"
  /\ UNCHANGED <<fsVars, xrayVars, unreadable, scanVars, searchVars, wdirs, wfiles, initial_files,
                 files_to_rename, file_list, matching_folders, walk,
                 copied_count, files_before, original_file_path, worker,
                 copied_folders, to_move, overwritten, named, nomatch>>

\* copy_matching_contents: the original is copied into the next copied folder
\* under a "- Copy" name found free there; copy2 can raise OSError, which ends
\* the run
CopyOriginal ==
  /\ mpc = "fill"
  /\ copied_folders # <<>>
  /\ LET copied_folder == <<Head(copied_folders)>>
         se == SplitExt(original_file_path)
         first == CopyName(se[1], se[2])
         taken == NamesIn(copied_folder)
         chosen == FreeName(taken, first, "copy", se[1], se[2])
         dest == Copy2Dest(copied_folder \o <<chosen>>, original_file_path)
     IN /\ named' = Naming("original", first, taken, chosen)
        /\ IF <<original_file_path>> \in wdirs
           THEN /\ mpc' = "crashed"
                /\ UNCHANGED <<wfiles, overwritten>>
           ELSE \/ /\ overwritten' = overwritten \cup Replaced({dest})
                   /\ wfiles' = Put(wfiles, dest, wfiles[<<original_file_path>>])
                   /\ UNCHANGED mpc
                \/ /\ mpc' = "crashed"
                   /\ UNCHANGED <<wfiles, overwritten>>
  /\ copied_folders' = Tail(copied_folders)
  /\ UNCHANGED <<fsVars, xrayVars, unreadable, scanVars, searchVars, wdirs, initial_files,
                 files_to_rename, file_list, matching_folders, walk,
                 copied_count, files_before, original_file_path, worker,
                 to_move, nomatch>>

\* a wrong program that removes the original without waiting for its copies
AllFilled_Any == TRUE

\* copy_matching_contents: the loop over copied_folders has come to its end
AllFilled == copied_folders = <<>>

\* copy_matching_contents: os.remove(original_file_path)
RemoveOriginal ==
  /\ mpc = "fill"
  /\ AllFilled
  /\ IF <<original_file_path>> \in wdirs
     THEN /\ mpc' = "crashed"
          /\ UNCHANGED wfiles
     ELSE /\ wfiles' = Drop(wfiles, <<original_file_path>>)
          /\ mpc' = "loop"
  /\ UNCHANGED <<fsVars, xrayVars, unreadable, scanVars, searchVars, wdirs, initial_files,
                 files_to_rename, file_list, matching_folders, walk,
                 copied_count, files_before, original_file_path, worker,
                 copied_folders, to_move, overwritten, named, nomatch>>

\* main: shutil.move of the next listed entry into "NOT IN OCR"; it raises
\* when an entry of that name is already there
MoveUnresolved ==
  /\ mpc = "unresolved"
  /\ to_move # <<>>
  /\ LET f == Head(to_move) IN
     IF WExists(<<NotInOcr, f>>)
     THEN /\ mpc' = "crashed"
          /\ UNCHANGED <<wdirs, wfiles>>
     ELSE /\ wdirs' = {MovedInto(q, f, <<NotInOcr>>) : q \in wdirs}
          /\ wfiles' = [q \in {MovedInto(r, f, <<NotInOcr>>) : r \in DOMAIN wfiles} |->
                          wfiles[IF q \in DOMAIN wfiles /\ ~StartsWith(q, <<f>>)
                                 THEN q ELSE Tail(q)]]
          /\ UNCHANGED mpc
  /\ to_move' = Tail(to_move)
  /\ UNCHANGED <<fsVars, xrayVars, unreadable, scanVars, searchVars, initial_files, files_to_rename,
                 file_list, matching_folders, walk, copied_count, files_before,
                 original_file_path, worker, copied_folders, overwritten,
                 named, nomatch>>

\* main: the listing has been gone through
UnresolvedDone ==
  /\ mpc = "unresolved"
  /\ to_move = <<>>
  /\ mpc' = "loop"
  /\ UNCHANGED <<fsVars, xrayVars, unreadable, scanVars, searchVars, wdirs, wfiles, initial_files,
                 files_to_rename, file_list, matching_folders, walk,
                 copied_count, files_before, original_file_path, worker,
                 copied_folders, to_move, overwritten, named, nomatch>>

----------------------------------------------------------------------------
(* The merge run: both programs over small archives and working directories *)

\* most leaves of an enumerated archive
MaxArch == 2

\* most entries of an enumerated working directory
MaxWork == 2

DayDir(root) == <<root, Year2025, Jun25, Jun10>>

FileD == <<"d", ".", "p">>
File12 == <<"1", "2", ".", "p">>
File12Bare == <<"1", "2">>
File12Copy == <<"1", "2", " ", "-", " ", "C", "o", "p", "y", ".", "p">>
FileThumbs == <<"T", ".", "D", "B">>
File12Db == <<"1", "2", ".", "d", "b">>
File1Paren == <<"1", " ", "(", "a", ")", ".", "p">>

\* the files an archive is drawn from; their folders come with them
ArchLeaves ==
  { DayDir(R1) \o <<N12S, FileD>>,
    DayDir(R2) \o <<N12S, FileD>>,
    DayDir(R1) \o <<N12S, <<"s">>, FileD>>,
    DayDir(R1) \o <<N12S, FileThumbs>> }

\* the files a working directory is drawn from
WorkFileLeaves ==
  {<<File12>>, <<File12Bare>>, <<File12Copy>>, <<File12Db>>, <<File1Paren>>,
   <<NotInOcr, File12>>}

\* the folders a working directory is drawn from
WorkDirLeaves == {<<N12S>>}

Today == [y |-> 2025, m |-> 6, d |-> 11]

\* main from the end of the X-ray pass on: the X-ray covers directory is absent,
\* so search_xray_covers_for_match returns None and the pass changes nothing
InitMerge ==
  /\ \E ls \in SubsetsUpTo(ArchLeaves, MaxArch) :
       /\ afiles = ls
       /\ adirs = UNION {Ancestors(l) : l \in ls} \ ls
  /\ \E ws \in SubsetsUpTo(WorkFileLeaves \cup WorkDirLeaves, MaxWork) :
       /\ wfiles = [q \in ws \cap WorkFileLeaves |-> <<<<"w">>, Last(q)>>]
       /\ wdirs = UNION {Ancestors(l) : l \in ws} \ WorkFileLeaves
       /\ initial_files = ws \cap WorkFileLeaves
  /\ prog \in {"finder", "comline"}
  /\ now = Today
  /\ mpc = IF prog = "finder" THEN "rename_list" ELSE "list"
  /\ target = <<>>
  /\ ScanIdle
  /\ PoolIdle
  /\ files_to_rename = <<>>
  /\ file_list = <<>>
  /\ matching_folders = <<>>
  /\ walk = <<>>
  /\ copied_count = 0
  /\ files_before = 0
  /\ original_file_path = <<>>
  /\ worker = <<>>
  /\ copied_folders = <<>>
  /\ to_move = <<>>
  /\ overwritten = {}
  /\ named = NoName
  /\ nomatch = {}
  /\ XrayIdle

NextMerge ==
  \/ RenameList
  \/ RenameFile
  \/ RenameReturn
  \/ ListFiles
  \/ FinderTask
  \/ WalkFolder
  \/ CopyFile
  \/ FlatReturn
  \/ ComlineTask
  \/ \E i \in DOMAIN worker : WorkerName(i)
  \/ \E i \in DOMAIN worker : WorkerMkdir(i)
  \/ \E i \in DOMAIN worker : WorkerCopy(i)
  \/ \E i \in DOMAIN worker : WorkerReturn(i)
  \/ \E i \in DOMAIN worker : CollectCopy(i)
  \/ PoolExit
  \/ CopyOriginal
  \/ RemoveOriginal
  \/ MoveUnresolved
  \/ UnresolvedDone
  \/ Finish

SpecMerge == InitMerge /\ [][NextMerge]_vars

----------------------------------------------------------------------------
(* C7 .. C10 *)

\* C7: no copy, rename or move of the merge writes to a path that existed
\* just before the write, and while copy_files_from_matching_folders runs the
\* working directory holds exactly copied_count files more than when it began.
C7_NoOverwrite ==
  /\ overwritten = {}
  /\ mpc = "flat" => Cardinality(DOMAIN wfiles) = files_before + copied_count

\* the copy workers that have finished copy_folder_with_contents
Landed == {i \in DOMAIN worker : worker[i].pc \in {"done", "collected"}}

\* C8: two match folders of one base name that carry the same folder name are
\* copied into two different folders of the working directory, and while the
\* copies are being collected each of the two holds files of its own source only.
C8_DistinctFolders ==
  \A i, j \in Landed :
    (i # j /\ Last(worker[i].src) = Last(worker[j].src)) =>
      /\ worker[i].dest # worker[j].dest
      /\ mpc = "copying" =>
           \A q \in DOMAIN wfiles :
             Below(q, <<worker[i].dest>>) => Below(wfiles[q], worker[i].src)

\* the k-th alternative of the loop that ran last: "X - Copy (k)" for a folder
\* of copy_folder_with_contents, the counter before the extension elsewhere
AltOf(nm, k) ==
  IF nm.site = "folder"
  THEN CopyAlt(nm.first, <<>>, k)
  ELSE FlatAlt(SplitExt(nm.first)[1], SplitExt(nm.first)[2], k)

\* C9: a naming loop keeps the wanted name when it is free; otherwise it takes
\* the first alternative in the order 1, 2, 3, ... that is free, every lower
\* alternative being taken: "X (N)" with the counter before the extension for
\* flat copies and "- Copy" renames, "X - Copy (N)" for a folder copied by
\* copy_folder_with_contents. The name chosen is never one that existed when
\* the loop probed.
C9_Naming ==
  named.site # "none" =>
    /\ named.chosen \notin named.taken
    /\ named.first \notin named.taken => named.chosen = named.first
    /\ named.first \in named.taken =>
         \E n \in 1..(Cardinality(named.taken) + 1) :
           /\ named.chosen = AltOf(named, n)
           /\ \A k \in 1..(n - 1) : AltOf(named, k) \in named.taken

\* a folder copy found "X" and "X - Copy (1)" taken and chose "X - Copy (2)"
C9_Witness ==
  /\ named.site = "folder"
  /\ {named.first, CopyAlt(named.first, <<>>, 1)} \subseteq named.taken
  /\ named.chosen = CopyAlt(named.first, <<>>, 2)

\* C9 as stated: whenever the wanted name "X" is taken, the name chosen is
\* "X (N)", counter before the extension, for the least N whose name is free.
C9_Original ==
  (named.site # "none" /\ named.first \in named.taken) =>
    \E n \in 1..(Cardinality(named.taken) + 1) :
      /\ named.chosen = FlatAlt(SplitExt(named.first)[1], SplitExt(named.first)[2], n)
      /\ named.chosen \notin named.taken
      /\ \A k \in 1..(n - 1) :
           FlatAlt(SplitExt(named.first)[1], SplitExt(named.first)[2], k) \in named.taken

\* C10: after the run, for every base name whose search found nothing,
\* "NOT IN OCR" exists, no file of the working root starts with the base name,
\* and every file that was at the root under such a name is in "NOT IN OCR".
C10_Fallback ==
  mpc = "done" =>
    \A b \in nomatch :
      /\ <<NotInOcr>> \in wdirs
      /\ \A n \in RootNames : <<n>> \in DOMAIN wfiles => ~StartsWith(n, b)
      /\ \A q \in initial_files :
           (Len(q) = 1 /\ StartsWith(Last(q), b)) => <<NotInOcr, Last(q)>> \in DOMAIN wfiles

----------------------------------------------------------------------------
(* The X-ray override pass, the first loop of main in both programs *)

\* most entries of an enumerated X-ray covers directory
MaxXray == 2

\* a wrong search that takes any file of the X-ray covers directory for a match
XrayMatches_Any(base_name) == DOMAIN xfiles

\* search_xray_covers_for_match: the files one of which os.listdir yields
\* first; none when the directory is absent
XrayMatches(base_name) ==
  IF ~xdir THEN {}
  ELSE {f \in DOMAIN xfiles : ~IsDb(f) /\ Contains(SplitExt(f)[1], base_name)}

\* main: get_file_base_names(prompt_dir) for the override pass; the listed file
\* is kept beside each base name
XrayList ==
  /\ mpc = "xray_list"
  /\ xlist' \in Perms(ListedFiles)
  /\ mpc' = "xray"
  /\ UNCHANGED <<fsVars, scanVars, searchVars, unreadable, xdir, xdirs, xfiles,
                 wdirs, wfiles, initial_files, files_to_rename, file_list,
                 matching_folders, walk, copied_count, files_before,
                 original_file_path, worker, copied_folders, to_move,
                 overwritten, named, nomatch>>

\* main: the pass for the next base name; with an X-ray match and an original
\* found by find_original_file, shutil.move(xray_match, original_file)
XrayStep ==
  /\ mpc = "xray"
  /\ xlist # <<>>
  /\ LET base_name == SplitExt(Head(xlist))[1] IN
     IF XrayMatches(base_name) = {} \/ OriginalCandidates(base_name) = {}
     THEN UNCHANGED <<wfiles, xfiles, mpc>>
     ELSE \E xray_match \in XrayMatches(base_name) :
          \E original_file \in OriginalCandidates(base_name) :
            LET dst == Copy2Dest(<<original_file>>, xray_match) IN
            IF dst \in wdirs \/ (<<original_file>> \in wdirs /\ WExists(dst))
            THEN /\ mpc' = "crashed"
                 /\ UNCHANGED <<wfiles, xfiles>>
            ELSE /\ wfiles' = Put(wfiles, dst, xfiles[xray_match])
                 /\ xfiles' = Drop(xfiles, xray_match)
                 /\ UNCHANGED mpc
  /\ xlist' = Tail(xlist)
  /\ UNCHANGED <<fsVars, scanVars, searchVars, unreadable, xdir, xdirs, wdirs,
                 initial_files, files_to_rename, file_list, matching_folders,
                 walk, copied_count, files_before, original_file_path, worker,
                 copied_folders, to_move, overwritten, named, nomatch>>

\* main: the pass is over; ocr_file_finder goes on to rename the originals,
\* ocr_finder_comline to list the base names
XrayDone ==
  /\ mpc = "xray"
  /\ xlist = <<>>
  /\ mpc' = IF prog = "finder" THEN "rename_list" ELSE "list"
  /\ UNCHANGED <<fsVars, scanVars, searchVars, unreadable, xrayVars, wdirs, wfiles,
                 initial_files, files_to_rename, file_list, matching_folders,
                 walk, copied_count, files_before, original_file_path, worker,
                 copied_folders, to_move, overwritten, named, nomatch>>

File34 == <<"3", "4", ".", "p">>
File312 == <<"3", "1", "2", ".", "q">>
File56 == <<"5", "6", ".", "p">>
Dir12D == <<"1", "2", ".", "d">>

\* the files and the folder a working directory of the pass is drawn from
XrayWorkFiles == {<<File12>>, <<File12Bare>>, <<File12Db>>, <<File34>>}
XrayWorkDirs == {<<Dir12D>>}

\* the files and the folder an X-ray covers directory is drawn from
XrayFiles == {File12, File312, File56, File12Db}
XrayDirs == {N12}

InitXray ==
  /\ \E ws \in SubsetsUpTo(XrayWorkFiles \cup XrayWorkDirs, MaxWork) :
       /\ wfiles = [q \in ws \cap XrayWorkFiles |-> <<<<"w">>, Last(q)>>]
       /\ wdirs = ws \cap XrayWorkDirs
       /\ initial_files = ws \cap XrayWorkFiles
  /\ xdir \in BOOLEAN
  /\ \E xs \in SubsetsUpTo(XrayFiles \cup XrayDirs, MaxXray) :
       /\ xfiles = [f \in xs \cap XrayFiles |-> <<<<"x">>, f>>]
       /\ xdirs = xs \cap XrayDirs
       /\ xdir \/ xs = {}
  /\ xlist = <<>>
  /\ unreadable = {}
  /\ adirs = {}
  /\ afiles = {}
  /\ prog \in {"finder", "comline"}
  /\ now = Today
  /\ mpc = "xray_list"
  /\ target = <<>>
  /\ ScanIdle
  /\ PoolIdle
  /\ files_to_rename = <<>>
  /\ file_list = <<>>
  /\ matching_folders = <<>>
  /\ walk = <<>>
  /\ copied_count = 0
  /\ files_before = 0
  /\ original_file_path = <<>>
  /\ worker = <<>>
  /\ copied_folders = <<>>
  /\ to_move = <<>>
  /\ overwritten = {}
  /\ named = NoName
  /\ nomatch = {}

NextXray ==
  \/ XrayList
  \/ XrayStep
  \/ XrayDone

SpecXray == InitXray /\ [][NextXray]_vars

----------------------------------------------------------------------------
(* C11, C12 *)

\* the X-ray covers directory is absent or holds no file whose base name
\* contains base_name
NoOverride(base_name) ==
  ~xdir \/ \A f \in DOMAIN xfiles : ~Contains(SplitExt(f)[1], base_name)

\* C11: a step of the override pass for a base name without an override
\* changes neither the working directory nor the X-ray covers directory.
C11_NoMatchNoOp ==
  [][(mpc = "xray" /\ xlist # <<>> /\ xlist' = Tail(xlist)
        /\ NoOverride(SplitExt(Head(xlist))[1]))
       => UNCHANGED <<wdirs, wfiles, xdir, xdirs, xfiles>>]_vars

\* the pass has ended over a working directory with files and an X-ray covers
\* directory with files none of which matched
C11_Witness ==
  /\ mpc \in {"rename_list", "list"}
  /\ xdir
  /\ DOMAIN xfiles # {}
  /\ ListedFiles # {}
  /\ \A n \in ListedFiles : NoOverride(SplitExt(n)[1])

\* C12: a step of the override pass for a base name with an override leaves
\* the names of the working directory as they are, puts the content of a
\* matching override file into the working file the base name was read from,
\* removes that override file and touches no other working file.
C12_Replace ==
  [][(mpc = "xray" /\ xlist # <<>> /\ xlist' = Tail(xlist)
        /\ XrayMatches(SplitExt(Head(xlist))[1]) # {})
       => /\ wdirs' = wdirs
          /\ DOMAIN wfiles' = DOMAIN wfiles
          /\ \E x \in XrayMatches(SplitExt(Head(xlist))[1]) :
               /\ wfiles'[<<Head(xlist)>>] = xfiles[x]
               /\ x \notin DOMAIN xfiles'
          /\ \A q \in DOMAIN wfiles \ {<<Head(xlist)>>} : wfiles'[q] = wfiles[q]]_vars

----------------------------------------------------------------------------
(* C13 *)

\* the search for base_name can only find one match folder, the same in every
\* order of completion
OneMatch(base_name) ==
  \E F \in adirs : SearchLists(prog, adirs, afiles, now, base_name) = {<<F>>}

\* that folder
TheMatch(base_name) ==
  (CHOOSE ms \in SearchLists(prog, adirs, afiles, now, base_name) : TRUE)[1]

\* m is "B - Copy.ext" or one of its conflict alternatives "B - Copy (k).ext"
IsCopyOf(m, se) ==
  \/ m = CopyName(se[1], se[2])
  \/ \E k \in 1..(Cardinality(DOMAIN wfiles) + Cardinality(wdirs)) : m = CopyAlt(se[1], se[2], k)

\* the working files "B.ext" the claim is about: at the working root, with an
\* extension, not .db, not yet marked "- Copy", with exactly one match folder
OneMatchOriginals ==
  {q \in initial_files :
     /\ Len(q) = 1
     /\ SplitExt(Last(q))[2] # <<>>
     /\ ~IsDb(Last(q))
     /\ ~Contains(Last(q), DashCopy)
     /\ OneMatch(SplitExt(Last(q))[1])}

\* C13: after the run, for a working file "B.ext" with exactly one match
\* folder F, no .db file of the archive has been copied, every other file of
\* F's subtree has a copy (at the working root in ocr_file_finder, at its
\* relative path inside one copied folder in ocr_finder_comline), and beside
\* those copies a file named "B - Copy.ext", or a conflict alternative of that
\* name, holds the content of "B.ext".
C13_OneFolder ==
  mpc = "done" =>
    \A q \in OneMatchOriginals :
      LET se == SplitExt(Last(q))
          F == TheMatch(se[1])
          files == {e \in afiles : Below(e, F) /\ ~IsDb(Last(e))}
          original == <<<<"w">>, Last(q)>>
      IN /\ \A r \in DOMAIN wfiles : wfiles[r] \in afiles => ~IsDb(Last(wfiles[r]))
         /\ IF prog = "finder"
            THEN /\ \A e \in files : \E r \in DOMAIN wfiles : Len(r) = 1 /\ wfiles[r] = e
                 /\ \E r \in DOMAIN wfiles :
                      Len(r) = 1 /\ wfiles[r] = original /\ IsCopyOf(Last(r), se)
            ELSE \E D \in wdirs :
                   /\ Len(D) = 1
                   /\ \A e \in files :
                        LET r == D \o SubSeq(e, Len(F) + 1, Len(e))
                        IN r \in DOMAIN wfiles /\ wfiles[r] = e
                   /\ \E m \in NamesIn(D) :
                        /\ D \o <<m>> \in DOMAIN wfiles
                        /\ wfiles[D \o <<m>>] = original
                        /\ IsCopyOf(m, se)

----------------------------------------------------------------------------
(* The scan over an archive with a directory that cannot be read *)

\* the call ended with the OSError of os.scandir instead of returning
Raised == <<"raised">>

\* os.scandir raises for root or for a directory below it: the recursion
\* enters every directory of the subtree, and nothing catches the error
ScanRaises(ds, bad, root) == root \in bad \/ \E d \in ds \cap bad : Below(d, root)

\* every outcome of search_directory_for_matches(root, t) when the directories
\* in bad cannot be read
ScanOutcomes(ds, fs, bad, root, t) ==
  IF ScanRaises(ds, bad, root) THEN {Raised}
  ELSE search_directory_for_matches(ds, fs, root, t)

InitScanErr ==
  /\ \E es \in SubsetsUpTo(ScanPaths, MaxEntries) :
       \E ds \in SUBSET es :
         /\ IsTree(ds, es \ ds)
         /\ adirs = ds
         /\ afiles = es \ ds
  /\ target \in ScanTargets
  /\ scan_root \in adirs \cup {<<>>}
  /\ scan_out = NotScanned
  /\ unreadable \in SubsetsUpTo(adirs, 1)
  /\ SearchIdle
  /\ MergeIdle
  /\ xdir = FALSE
  /\ xdirs = {}
  /\ xfiles = <<>>
  /\ xlist = <<>>

\* one call of search_directory_for_matches(scan_root, target)
ScanUnreadable ==
  /\ scan_out = NotScanned
  /\ scan_out' \in ScanOutcomes(adirs, afiles, unreadable, scan_root, target)
  /\ UNCHANGED <<fsVars, xrayVars, unreadable, target, scan_root, searchVars, mergeVars>>

NextScanErr == ScanUnreadable

SpecScanErr == InitScanErr /\ [][NextScanErr]_vars

----------------------------------------------------------------------------
(* C14 *)

\* the matches below root that can be reached through readable directories
ReadableMatches(ds, bad, root, t) ==
  {p \in MatchesBelow(ds, root, t) :
     \A k \in Len(root)..(Len(p) - 1) : SubSeq(p, 1, k) \notin bad}

\* C14: a scan never ends with the error of a directory it could not read; it
\* returns exactly the matches that can be reached through readable
\* directories, so an unreadable subtree contributes nothing and its siblings
\* contribute all their matches.
C14_Degrades ==
  scan_out # NotScanned =>
    /\ scan_out # Raised
    /\ Range(scan_out) = ReadableMatches(adirs, unreadable, scan_root, target)

----------------------------------------------------------------------------
(* C15 *)

\* C15: no failure of a copy, rename or move ends the run: the program never
\* stops on an error, so every later file, folder and base name is still
\* processed.
C15_RunGoesOn == mpc # "crashed"

----------------------------------------------------------------------------
(* C16 *)

\* the copy workers that have made their destination folder and have not yet
\* returned: they are in the middle of a folder copy
Copying == {i \in DOMAIN worker : worker[i].pc = "copy"}

\* C16: in ocr_finder_comline at most one thread is in the middle of an
\* operation that changes the working directory.
C16_OneMutator == prog = "comline" => Cardinality(Copying) <= 1

----------------------------------------------------------------------------
(* C17 *)

\* the full-archive phase is the last phase of either program
FullArchive == Len(PhaseList(prog))

\* C17: once the full-archive phase has resolved its candidates, the
\* directories it submits for scanning are exactly the configured archive
\* roots that exist.
C17_FullArchiveRoots ==
  (prog \in {"finder", "comline"} /\ Len(phases_run) = FullArchive) =>
    {k[2] : k \in TasksOf(FullArchive)} = {r \in search_dirs_all : r \in adirs}

----------------------------------------------------------------------------
(* C18 *)

\* phase i has been resolved and left
PhaseOver(i) == i < phase \/ (i = phase /\ pc = "returned" /\ i <= Len(phases_run))

\* C18: when a phase is over, the match list holds every match of every
\* candidate the phase scanned, whatever the order of completion; except that
\* a recent-day phase of ocr_file_finder in which some candidate has a match
\* returns the matches of one such candidate only, the first to complete.
C18_PhaseUnion ==
  \A i \in 1..Len(phases_run) :
    PhaseOver(i) =>
      IF BreaksAtFirst(prog, PhaseList(prog)[i])
      THEN (\E k \in TasksOf(i) : MatchesBelow(adirs, k[2], target) # {}) =>
             \E k \in TasksOf(i) :
               /\ MatchesBelow(adirs, k[2], target) # {}
               /\ Range(matches) = MatchesBelow(adirs, k[2], target)
      ELSE \A k \in TasksOf(i) : MatchesBelow(adirs, k[2], target) \subseteq Range(matches)

\* a phase of phased_search had two candidates with a match each, and the
\* search has returned
C18_Witness ==
  /\ prog = "comline" /\ pc = "returned"
  /\ \E k1, k2 \in DOMAIN task :
       /\ k1 # k2 /\ k1[1] = k2[1]
       /\ MatchesBelow(adirs, k1[2], target) # {}
       /\ MatchesBelow(adirs, k2[2], target) # {}
       /\ MatchesBelow(adirs, k1[2], target) # MatchesBelow(adirs, k2[2], target)

\* C18 as stated: when a phase is over, the match list holds every match of
\* every candidate the phase scanned.
C18_Original ==
  \A i \in 1..Len(phases_run) :
    PhaseOver(i) =>
      \A k \in TasksOf(i) : MatchesBelow(adirs, k[2], target) \subseteq Range(matches)

----------------------------------------------------------------------------
(* C19 *)

\* the search where the searching thread and the pool always go on when they
\* can, while a scan that has started need never finish
SpecSearchFair ==
  /\ InitSearch
  /\ [][NextSearch]_vars
  /\ WF_vars(Resolve)
  /\ WF_vars(\E k \in DOMAIN task : ScanStart(k))
  /\ WF_vars(\E k \in DOMAIN task : Collect(k))
  /\ WF_vars(PhaseEnd)

\* C19: once a recent-day phase of ocr_file_finder has left its loop with a
\* non-empty result, the search returns, even if a scan of that phase that is
\* still running never finishes.
C19_NoWait == (prog = "finder" /\ pc = "drain") ~> (pc = "returned")

----------------------------------------------------------------------------
(* C20 *)

\* C20: in ocr_file_finder a call of copy_files_from_matching_folders begins
\* only when no other call is running: the main thread is between two turns
\* of its loop, with no match folder and no file of an earlier call left.
C20_Serialized ==
  [][(prog = "finder" /\ file_list # <<>> /\ file_list' = Tail(file_list)
        /\ mpc' = "flat")
       => (mpc = "loop" /\ walk = <<>> /\ matching_folders = <<>>)]_vars

\* a second call has just begun in a working directory that holds the files
\* an earlier call copied
C20_Witness ==
  /\ prog = "finder" /\ mpc = "flat"
  /\ copied_count = 0 /\ walk = <<>> /\ matching_folders # <<>>
  /\ \E r \in DOMAIN wfiles : wfiles[r] \in afiles

----------------------------------------------------------------------------
(* C21 *)

\* the name main hands to the search for the base name base_name:
\* ocr_file_finder strips it, ocr_finder_comline passes it on as it is
Searched(pr, base_name) == IF pr = "finder" THEN SearchName(base_name) ELSE base_name

\* the length of a trailing " (k)" of s, k a decimal number; 0 without one
TrailingCounter(s) ==
  IF s = <<>> \/ Last(s) # ")" THEN 0
  ELSE LET opens == {i \in 1..(Len(s) - 3) :
                       /\ s[i] = " " /\ s[i + 1] = "("
                       /\ \A j \in (i + 2)..(Len(s) - 1) : s[j] \in Range(Digits)}
       IN IF opens = {} THEN 0 ELSE Len(s) - (CHOOSE i \in opens : TRUE) + 1

\* a base name without its copy decorations: every trailing " - Copy" and
\* every trailing " (k)" taken off
RECURSIVE Undecorated(_)
Undecorated(s) ==
  IF EndsWith(s, CopyMark) THEN Undecorated(SubSeq(s, 1, Len(s) - Len(CopyMark)))
  ELSE IF TrailingCounter(s) > 0
       THEN Undecorated(SubSeq(s, 1, Len(s) - TrailingCounter(s)))
       ELSE s

\* the document a working file name denotes
Document(name) == Undecorated(SplitExt(name)[1])

\* the documents of the files the run began with at the working root
InitialDocuments ==
  {Document(Last(q)) : q \in {r \in initial_files : Len(r) = 1 /\ ~IsDb(Last(r))}}

\* C21: every name handed to the search is the name of a working file the run
\* began with, without its extension and its copy decorations, also when the
\* rename phase has decorated the file in between; and when the rename phase
\* of ocr_file_finder has returned, it would find no file to rename.
C21_SearchName ==
  /\ mpc = "loop" =>
       \A i \in DOMAIN file_list : Searched(prog, file_list[i]) \in InitialDocuments
  /\ (prog = "finder" /\ mpc = "list") =>
       {n \in ListedFiles : ~Contains(n, DashCopy)} = {}

----------------------------------------------------------------------------
(* C22 *)

\* the content of the file the run began with at path q is still held by a
\* file of the working directory: by q itself or by a file the run has made
Kept(q) ==
  \E p \in DOMAIN wfiles :
    /\ wfiles[p] = <<<<"w">>, Last(q)>>
    /\ p = q \/ p \notin initial_files

\* every folder copy of the last copy_matching_contents has been collected and
\* every copied folder holds a "- Copy" copy of content c
AllCopied(c) ==
  /\ worker # <<>>
  /\ \A i \in DOMAIN worker :
       /\ worker[i].pc = "collected"
       /\ \E p \in DOMAIN wfiles :
            /\ Len(p) = 2 /\ p[1] = worker[i].dest
            /\ Contains(p[2], CopyMark)
            /\ wfiles[p] = c

\* C22: in ocr_finder_comline the content of every file the run began with is
\* in the working directory at every moment; the original of
\* copy_matching_contents is missing from the working root only when every
\* folder copy has been collected and every copied folder holds a "- Copy" copy
\* of it, so after a failed folder copy or a failed copy of the original it is
\* still there; and the step that removes it is taken in such a state only.
C22_OriginalKept ==
  /\ [](prog = "comline" =>
          /\ \A q \in initial_files : Kept(q)
          /\ (original_file_path # <<>> /\ ~WExists(<<original_file_path>>))
               => AllCopied(<<<<"w">>, original_file_path>>))
  /\ [][(prog = "comline" /\ mpc = "fill"
           /\ <<original_file_path>> \in DOMAIN wfiles
           /\ <<original_file_path>> \notin DOMAIN wfiles')
          => AllCopied(wfiles[<<original_file_path>>])]_vars

\* copy_matching_contents has removed an original of which two copied folders
\* hold a copy
C22_Witness ==
  /\ prog = "comline" /\ mpc = "loop"
  /\ original_file_path # <<>>
  /\ <<original_file_path>> \in initial_files
  /\ <<original_file_path>> \notin DOMAIN wfiles
  /\ Len(worker) = 2
  /\ \A i \in DOMAIN worker :
       \E p \in DOMAIN wfiles :
         /\ Len(p) = 2 /\ p[1] = worker[i].dest
         /\ wfiles[p] = <<<<"w">>, original_file_path>>

----------------------------------------------------------------------------
(* C23 *)

\* some directory below a configured archive root that exists has a name
\* containing t
SomewhereBelowRoots(t) ==
  \E r \in search_dirs_all : r \in adirs /\ MatchesBelow(adirs, r, t) # {}

\* C23: when a directory below an existing archive root has a name containing
\* the target, the search of either program returns a match list that is not
\* empty.
C23_Found ==
  (pc = "returned" /\ SomewhereBelowRoots(target)) => matches # <<>>

====
